---- MODULE Spec2Model ----
(***************************************************************************)
(* Loot oracle of src/src/loot.rs: Goodie::generate, the two tier item     *)
(* selectors ChestItem::generate_common / generate_rare and the innate     *)
(* enchantment cascade enchant_item, as a state machine that advances one  *)
(* generator draw at a time.                                               *)
(*                                                                         *)
(* The generator rng::DotnetRng is not part of loot.rs.  It is modelled    *)
(* from its contract: a seed fixes a sequence of samples in [0,1); every   *)
(* draw consumes exactly one sample; next_f64 returns the sample and       *)
(* next_range(b) returns floor(sample * b).  A sample is r / RawLevels     *)
(* with r in 0 .. RawLevels-1, and a generator is a cursor into the seed's *)
(* sequence.                                                               *)
(*                                                                         *)
(* Floating point values are exact rationals here.  A roll is kept in      *)
(* units of 1/(10 * RawLevels), a luck bound in tenths.                    *)
(***************************************************************************)
EXTENDS Integers, Sequences, FiniteSets, TLC

(* ------------------------------- bounds -------------------------------- *)

\* number of distinct sample values a generator can return
RawLevels == 10
\* period of the seed's sample sequence when the sequence is tracked
StreamPeriod == 3
\* rejected index draws explored per selector call
MaxRejects == 3

Raw == 0 .. (RawLevels - 1)

(* ------------------------- program constants --------------------------- *)

CommonWidth == 7
CommonExcluded == 1
RareWidth == 9
RareExcluded == 3
WeaponSlot == 6
WeaponWidth == 3
MajorWidth == 5
WeightWidth == 5
SpecialLevel == 9
DefenseCeiling == 10
CritPowerScale == 25

VARIABLES
    settings,   \* GameSettings.cracked_golden_coconut
    level,      \* argument level of Goodie::generate
    min_luck,   \* argument min_luck
    max_luck,   \* argument max_luck
    period,     \* 0: the seed's sequence is not tracked; else its period
    stream,     \* the samples of the seed's sequence revealed so far
    gpc,        \* position inside Goodie::generate
    chest_rng,  \* cursor of chest_rng
    chest_roll, \* local chest_roll
    goodie,     \* value returned by Goodie::generate
    calls,      \* the selectors Goodie::generate has called, in order
    pc,         \* position inside the running selector
    caller,     \* who called the running selector
    tier,       \* which selector runs
    rng,        \* cursor of the selector's generator
    ind,        \* local ind
    rejected,   \* iterations of the loop that took `continue`
    log,        \* what each sample consumed from rng was used for
    weapon,     \* the weapon picked by the weapon-family draw
    major,      \* the outcome of the 5-way draw of enchant_item
    enchs,      \* local enchs of enchant_item
    item,       \* value returned by the running selector
    direct      \* results of direct calls of the selectors

vars == << settings, level, min_luck, max_luck, period, stream, gpc, chest_rng,
           chest_roll, goodie, calls, pc, caller, tier, rng, ind, rejected,
           log, weapon, major, enchs, item, direct >>

inputs == << settings, level, min_luck, max_luck, period >>
goodieVars == << gpc, chest_rng, chest_roll, goodie, calls >>
enchVars == << weapon, major, enchs >>

(* ------------------- rng::DotnetRng (from its contract) ----------------- *)

\* DotnetRng::new(seed): a cursor in front of the first sample of the seed
DotnetRngNew == 0

\* next_f64() < num/den, for the sample r / RawLevels
NextF64Lt(r, num, den) == r * den < num * RawLevels

\* next_range(bound) for the sample r / RawLevels
NextRange(r, bound) == (r * bound) \div RawLevels

\* position in the tracked sequence read by a generator at cursor cur
StreamIndex(cur) == IF period = 0 THEN 0 ELSE (cur % period) + 1

\* r can be the sample a generator at cursor cur returns
Sampled(cur, r) ==
    /\ r \in Raw
    /\ StreamIndex(cur) \in 1 .. Len(stream) => r = stream[StreamIndex(cur)]

\* the revealed sequence after a generator at cursor cur returned r
Reveal(cur, r) ==
    IF StreamIndex(cur) > Len(stream) THEN Append(stream, r) ELSE stream

(* ------------------------------ item tables ----------------------------- *)

NoItem == [name |-> "None", enchs |-> << >>]

\* match ind of generate_common, arms 0 .. 5
CommonTable(i) ==
    CASE i = 0 -> "CinderShards3"
      [] i = 1 -> "GoldenCoconut"
      [] i = 2 -> "TaroTuber"
      [] i = 3 -> "PineappleSeeds"
      [] i = 4 -> "ProtectionRing"
      [] i = 5 -> "SoulSapperRing"

\* match ind of generate_rare, arms 0 .. 5, 7, 8
RareTable(i) ==
    CASE i = 0 -> "CinderShards10"
      [] i = 1 -> "MermaidBoots"
      [] i = 2 -> "DragonscaleBoots"
      [] i = 3 -> "GoldenCoconuts"
      [] i = 4 -> "PhoenixRing"
      [] i = 5 -> "HotJavaRing"
      [] i = 7 -> "DeluxePirateHat"
      [] i = 8 -> "OstrichEgg"

\* arm 6 of generate_common: the weapon and the arguments of enchant_item
CommonWeapon(w) ==
    CASE w = 0 -> [name |-> "DwarfSword", lvl |-> 13, speed |-> 4]
      [] w = 1 -> [name |-> "DwarfHammer", lvl |-> 13, speed |-> 0 - 8]
      [] w = 2 -> [name |-> "DwarfDagger", lvl |-> 11, speed |-> 3]

\* arm 6 of generate_rare: the weapon and the arguments of enchant_item
RareWeapon(w) ==
    CASE w = 0 -> [name |-> "DragontoothCutlass", lvl |-> 13, speed |-> 0]
      [] w = 1 -> [name |-> "DragontoothClub", lvl |-> 14, speed |-> 0 - 8]
      [] w = 2 -> [name |-> "DragontoothShiv", lvl |-> 12, speed |-> 0]

NoWeapon == [name |-> "None", lvl |-> 0, speed |-> 0]

TableWidth(t) == IF t = "common" THEN CommonWidth ELSE RareWidth
Excluded(t) == IF t = "common" THEN CommonExcluded ELSE RareExcluded
TableName(t, i) == IF t = "common" THEN CommonTable(i) ELSE RareTable(i)
WeaponOf(t, w) == IF t = "common" THEN CommonWeapon(w) ELSE RareWeapon(w)

\* mutant of Rejects: both loops test the index excluded from the common table
RejectsCommonIndex(t, i, toggle) == i = CommonExcluded /\ ~toggle

\* mutant of Rejects: the excluded index is redrawn whatever the toggle says
RejectsIgnoringToggle(t, i, toggle) == i = Excluded(t)

\* mutant of Rejects: a retry cap, the second draw is accepted as it comes
RejectsCapped(t, i, toggle) == i = Excluded(t) /\ ~toggle /\ rejected < 1

\* the `continue` condition of the rejection loop
Rejects(t, i, toggle) == i = Excluded(t) /\ ~toggle

(* ----------------------------- enchant_item ----------------------------- *)

Min2(a, b) == IF a < b THEN a ELSE b
Max2(a, b) == IF a > b THEN a ELSE b
Clamp(x, lo, hi) == IF x < lo THEN lo ELSE IF x > hi THEN hi ELSE x

\* the Defense test: next_f64() < 0.125 && weapon_lvl <= 10
DefenseFires(r, wl) == NextF64Lt(r, 1, 8) /\ wl <= DefenseCeiling

\* (rng.next_range(weapon_lvl + 1) / 2 + 1).min(2).max(1)
DefenseLevel(r, wl) == Max2(Min2(NextRange(r, wl + 1) \div 2 + 1, 2), 1)

\* -(1 + rng.next_range(5))
WeightLevel(r) == 0 - (1 + NextRange(r, WeightWidth))

MajorName(m) ==
    CASE m = 0 -> "Attack"
      [] m = 1 -> "CritChance"
      [] m = 2 -> "Speed"
      [] m = 3 -> "SlimeSlayer"
      [] m = 4 -> "CritPower"

\* mutant of MajorLevel: the magnitudes are not clamped
MajorLevelUnclamped(m, r, wl, ws) ==
    CASE m = 0 -> NextRange(r, wl + 1) \div 2 + 1
      [] m = 1 -> NextRange(r, wl) \div 3
      [] m = 2 -> NextRange(r, wl)
      [] m = 4 -> (NextRange(r, wl) \div 3) * CritPowerScale

\* the magnitude of the major enchantment m, drawn with sample r
MajorLevel(m, r, wl, ws) ==
    CASE m = 0 -> Clamp(NextRange(r, wl + 1) \div 2 + 1, 1, 5)
      [] m = 1 -> Clamp(NextRange(r, wl) \div 3, 1, 3)
      [] m = 2 -> Clamp(NextRange(r, wl), 1, Max2(1, 4 - ws))
      [] m = 4 -> Clamp(NextRange(r, wl) \div 3, 1, 3) * CritPowerScale

\* arm 3 of the 5-way match draws no magnitude
MajorDrawsLevel(m) == m # 3

Ench(e, l) == [e |-> e, lvl |-> l]

\* mutant of AfterBonusLevel: the chain is made of `if`s, the later tests
\* are still made after an arm has pushed
AfterBonusLevelFallThrough(p) == IF p = "def_lvl" THEN "ench_wt" ELSE "ench_slime"

\* where enchant_item goes on after an arm of the if / else if chain has
\* pushed its enchantment: the rest of the chain is skipped
AfterBonusLevel(p) == "major"

(* --------------------------- Goodie::generate --------------------------- *)

NotANumber == [nan |-> TRUE, tenths |-> 0]
Luck(t) == [nan |-> FALSE, tenths |-> t]

\* mutant of LevelOffset: 0.5 is subtracted at every level
LevelOffsetAlwaysHalf(l) == 5

\* if level == 9 { 0.5 } else { 0.1 }, in tenths
LevelOffset(l) == IF l = SpecialLevel THEN 5 ELSE 1

\* mutant of ChestRoll: the two offsets are exchanged
ChestRollSwapped(r, l) ==
    10 * r - (IF l = SpecialLevel THEN 1 ELSE 5) * RawLevels + 10 * RawLevels

\* chest_rng.next_f64() - offset + 1., in units of 1/(10 * RawLevels)
ChestRoll(r, l) == 10 * r - LevelOffset(l) * RawLevels + 10 * RawLevels

\* chest_roll < luck and chest_roll >= luck; both false for a NaN bound
RollLt(roll, luck) == ~luck.nan /\ roll < luck.tenths * RawLevels
RollGe(roll, luck) == ~luck.nan /\ roll >= luck.tenths * RawLevels

\* mutant of GoodieBranch: the `else if chest_roll >= max_luck` arm is lost
GoodieBranchNoCommon(roll, lo, hi) ==
    IF RollLt(roll, lo) THEN "rare" ELSE "both"

\* mutant of GoodieBranch: the common test is made before the rare test
GoodieBranchCommonFirst(roll, lo, hi) ==
    IF RollGe(roll, hi) THEN "common"
    ELSE IF RollLt(roll, lo) THEN "rare"
    ELSE "both"

\* the if / else if / else of Goodie::generate
GoodieBranch(roll, lo, hi) ==
    IF RollLt(roll, lo) THEN "rare"
    ELSE IF RollGe(roll, hi) THEN "common"
    ELSE "both"

\* mutant of TierRng: the selectors go on drawing from chest_rng
TierRngShared(chest) == chest

\* the generator a selector called by Goodie::generate draws from: the
\* calls pass chest_seed, so each selector makes a fresh one (chest is the
\* cursor of chest_rng)
TierRng(chest) == DotnetRngNew

NoGoodie == [tag |-> "None", minluck |-> 0 - 1, common |-> NoItem, rare |-> NoItem]
CommonChest(c) == [tag |-> "CommonChest", minluck |-> 0 - 1, common |-> c, rare |-> NoItem]
RareChest(c) == [tag |-> "RareChest", minluck |-> 0 - 1, common |-> NoItem, rare |-> c]
ChanceChest(m, c, x) == [tag |-> "ChanceChest", minluck |-> m, common |-> c, rare |-> x]

(* ------------------------------- inputs --------------------------------- *)

Tiers == {"common", "rare"}
Levels == {1, SpecialLevel}
LuckPairs ==
    { << Luck(0), Luck(10) >>, << Luck(9), Luck(14) >>, << Luck(14), Luck(9) >>,
      << Luck(10), Luck(10) >>, << NotANumber, Luck(10) >>, << Luck(9), NotANumber >> }


(* ----------------------------- initial states --------------------------- *)

Idle ==
    /\ stream = << >>
    /\ gpc = "idle" /\ chest_rng = 0 /\ chest_roll = 0 /\ goodie = NoGoodie
    /\ calls = << >>
    /\ pc = "idle" /\ caller = "none" /\ tier = "none"
    /\ rng = 0 /\ ind = 0 - 1 /\ rejected = 0 /\ log = << >>
    /\ weapon = NoWeapon /\ major = 0 - 1 /\ enchs = << >>
    /\ item = NoItem
    /\ direct = [t \in Tiers |-> NoItem]

\* a query Goodie::generate(chest_seed, settings, level, min_luck, max_luck)
\* on a seed whose sequence is tracked
Init ==
    /\ settings \in BOOLEAN
    /\ level \in Levels
    /\ \E p \in LuckPairs : min_luck = p[1] /\ max_luck = p[2]
    /\ period = StreamPeriod
    /\ Idle

\* one call of a selector on an arbitrary generator
SelInit ==
    /\ settings \in BOOLEAN
    /\ level = 1
    /\ min_luck = Luck(0) /\ max_luck = Luck(10)
    /\ period = 0
    /\ Idle

(* --------------------------- generator draws ---------------------------- *)

\* the selector's generator returns sample r, consumed for `use`
RngDraw(r, use, val) ==
    /\ Sampled(rng, r)
    /\ stream' = Reveal(rng, r)
    /\ rng' = rng + 1
    /\ log' = Append(log, [use |-> use, val |-> val])

(* ---------- ChestItem::generate_common / ChestItem::generate_rare ------- *)

\* a direct call ChestItem::generate_<t>(seed, settings); on an untracked
\* sequence a single call is made, on a tracked one the calls follow the query
DirectCall(t) ==
    /\ pc = "idle" /\ direct[t] = NoItem
    /\ IF period = 0
       THEN gpc = "idle" /\ \A u \in Tiers : direct[u] = NoItem
       ELSE gpc = "done"
    /\ tier' = t /\ caller' = "direct" /\ pc' = "new"
    /\ UNCHANGED << inputs, stream, goodieVars, rng, ind, rejected, log,
                    enchVars, item, direct >>

\* let mut rng = rng::DotnetRng::new(seed);
SelectorNew ==
    /\ pc = "new"
    /\ rng' = IF caller = "goodie" THEN TierRng(chest_rng) ELSE DotnetRngNew
    /\ ind' = 0 - 1 /\ rejected' = 0 /\ log' = << >>
    /\ weapon' = NoWeapon /\ major' = 0 - 1 /\ enchs' = << >>
    /\ item' = NoItem
    /\ pc' = "discard"
    /\ UNCHANGED << inputs, stream, goodieVars, caller, tier, direct >>

\* rng.next(); // one roll used for rare/normal check
SelectorDiscard ==
    /\ pc = "discard"
    /\ \E r \in Raw : RngDraw(r, "discard", 0 - 1)
    /\ pc' = "loop"
    /\ UNCHANGED << inputs, goodieVars, caller, tier, ind, rejected,
                    enchVars, item, direct >>

\* one iteration of the loop: draw ind, `continue` or `break ind`
SelectorLoop ==
    /\ pc = "loop"
    /\ \E r \in Raw :
         LET i == NextRange(r, TableWidth(tier)) IN
         /\ RngDraw(r, "index", i)
         /\ IF Rejects(tier, i, settings)
            THEN /\ rejected < MaxRejects
                 /\ rejected' = rejected + 1
                 /\ pc' = "loop"
                 /\ ind' = ind
            ELSE /\ rejected' = rejected
                 /\ pc' = "match"
                 /\ ind' = i
    /\ UNCHANGED << inputs, goodieVars, caller, tier, enchVars, item, direct >>

\* match ind: a table item, or for arm 6 the weapon-family draw
SelectorMatch ==
    /\ pc = "match"
    /\ IF ind = WeaponSlot
       THEN /\ \E r \in Raw :
                 LET w == NextRange(r, WeaponWidth) IN
                 /\ RngDraw(r, "weapon", w)
                 /\ weapon' = WeaponOf(tier, w)
            /\ pc' = "ench_gate"
            /\ item' = item
       ELSE /\ item' = [name |-> TableName(tier, ind), enchs |-> << >>]
            /\ pc' = "ret"
            /\ UNCHANGED << stream, rng, log, weapon >>
    /\ UNCHANGED << inputs, goodieVars, caller, tier, ind, rejected, major,
                    enchs, direct >>

(* ----------------------------- enchant_item ----------------------------- *)

\* enchant_item returns enchs and the match arm wraps it into the weapon
EnchantReturn(es) ==
    /\ enchs' = es
    /\ item' = [name |-> weapon.name, enchs |-> es]
    /\ pc' = "ret"

\* if rng.next_f64() < 0.5 { .. }
EnchantGate ==
    /\ pc = "ench_gate"
    /\ \E r \in Raw :
         /\ RngDraw(r, "gate", 0 - 1)
         /\ IF NextF64Lt(r, 1, 2)
            THEN pc' = "ench_def" /\ enchs' = << >> /\ item' = item
            ELSE EnchantReturn(<< >>)
    /\ UNCHANGED << inputs, goodieVars, caller, tier, ind, rejected, weapon,
                    major, direct >>

\* the conditions of the if / else if / else if chain, in order
EnchantBonusTest ==
    /\ pc \in {"ench_def", "ench_wt", "ench_slime"}
    /\ \E r \in Raw :
         /\ RngDraw(r, "bonus", 0 - 1)
         /\ CASE pc = "ench_def" ->
                   /\ pc' = IF DefenseFires(r, weapon.lvl) THEN "def_lvl" ELSE "ench_wt"
                   /\ enchs' = enchs
              [] pc = "ench_wt" ->
                   /\ pc' = IF NextF64Lt(r, 1, 8) THEN "wt_lvl" ELSE "ench_slime"
                   /\ enchs' = enchs
              [] pc = "ench_slime" ->
                   /\ pc' = "major"
                   /\ enchs' = IF NextF64Lt(r, 1, 8)
                               THEN Append(enchs, Ench("SlimeGatherer", 0))
                               ELSE enchs
    /\ UNCHANGED << inputs, goodieVars, caller, tier, ind, rejected, weapon,
                    major, item, direct >>

\* the magnitude draw of the Defense or the Weight arm, and its push
EnchantBonusLevel ==
    /\ pc \in {"def_lvl", "wt_lvl"}
    /\ \E r \in Raw :
         /\ RngDraw(r, "bonus_lvl", 0 - 1)
         /\ enchs' = IF pc = "def_lvl"
                     THEN Append(enchs, Ench("Defense", DefenseLevel(r, weapon.lvl)))
                     ELSE Append(enchs, Ench("Weight", WeightLevel(r)))
    /\ pc' = AfterBonusLevel(pc)
    /\ UNCHANGED << inputs, goodieVars, caller, tier, ind, rejected, weapon,
                    major, item, direct >>

\* match rng.next_range(5)
EnchantMajor ==
    /\ pc = "major"
    /\ \E r \in Raw :
         LET m == NextRange(r, MajorWidth) IN
         /\ RngDraw(r, "major", m)
         /\ major' = m
         /\ IF MajorDrawsLevel(m)
            THEN pc' = "major_lvl" /\ enchs' = enchs /\ item' = item
            ELSE EnchantReturn(Append(enchs, Ench(MajorName(m), 0)))
    /\ UNCHANGED << inputs, goodieVars, caller, tier, ind, rejected, weapon,
                    direct >>

\* the magnitude draw of the chosen arm, and enchs.push(last_one)
EnchantMajorLevel ==
    /\ pc = "major_lvl"
    /\ \E r \in Raw :
         /\ RngDraw(r, "major_lvl", 0 - 1)
         /\ EnchantReturn(Append(enchs,
                Ench(MajorName(major), MajorLevel(major, r, weapon.lvl, weapon.speed))))
    /\ UNCHANGED << inputs, goodieVars, caller, tier, ind, rejected, weapon,
                    major, direct >>

\* a direct call returns its item to the caller
DirectReturn ==
    /\ pc = "ret" /\ caller = "direct"
    /\ direct' = [direct EXCEPT ![tier] = item]
    /\ pc' = "idle"
    /\ UNCHANGED << inputs, stream, goodieVars, caller, tier, rng, ind,
                    rejected, log, enchVars, item >>

(* --------------------------- Goodie::generate --------------------------- *)

\* ChestItem::generate_<t>(chest_seed, settings)
CallTier(t) ==
    /\ tier' = t /\ caller' = "goodie" /\ pc' = "new"
    /\ calls' = Append(calls, t)

\* let mut chest_rng = rng::DotnetRng::new(chest_seed);
GoodieCall ==
    /\ gpc = "idle" /\ pc = "idle"
    /\ chest_rng' = DotnetRngNew
    /\ gpc' = "roll" /\ calls' = << >>
    /\ UNCHANGED << inputs, stream, chest_roll, goodie, pc, caller, tier, rng,
                    ind, rejected, log, enchVars, item, direct >>

\* let chest_roll = ..; and the branch taken on it
GoodieRoll ==
    /\ gpc = "roll"
    /\ \E r \in Raw :
         /\ Sampled(chest_rng, r)
         /\ stream' = Reveal(chest_rng, r)
         /\ chest_rng' = chest_rng + 1
         /\ chest_roll' = ChestRoll(r, level)
         /\ LET b == GoodieBranch(ChestRoll(r, level), min_luck, max_luck) IN
            /\ gpc' = CASE b = "rare" -> "only_rare"
                        [] b = "common" -> "only_common"
                        [] b = "both" -> "both_common"
            /\ CallTier(IF b = "rare" THEN "rare" ELSE "common")
    /\ UNCHANGED << inputs, goodie, rng, ind, rejected, log, enchVars, item,
                    direct >>

\* a selector called by Goodie::generate returns; the Goodie is built
GoodieTierReturn ==
    /\ pc = "ret" /\ caller = "goodie"
    /\ CASE gpc = "only_rare" ->
              /\ goodie' = RareChest(item)
              /\ gpc' = "done" /\ pc' = "idle"
              /\ UNCHANGED << caller, tier, calls >>
         [] gpc = "only_common" ->
              /\ goodie' = CommonChest(item)
              /\ gpc' = "done" /\ pc' = "idle"
              /\ UNCHANGED << caller, tier, calls >>
         [] gpc = "both_common" ->
              /\ goodie' = [goodie EXCEPT !.common = item]
              /\ gpc' = "both_rare"
              /\ CallTier("rare")
         [] gpc = "both_rare" ->
              /\ goodie' = ChanceChest(chest_roll, goodie.common, item)
              /\ gpc' = "done" /\ pc' = "idle"
              /\ UNCHANGED << caller, tier, calls >>
    /\ UNCHANGED << inputs, stream, chest_rng, chest_roll, rng, ind, rejected,
                    log, enchVars, item, direct >>

(* ---------------------------- specifications ---------------------------- *)

SelectorStep ==
    \/ SelectorNew
    \/ SelectorDiscard
    \/ SelectorLoop
    \/ SelectorMatch
    \/ EnchantGate
    \/ EnchantBonusTest
    \/ EnchantBonusLevel
    \/ EnchantMajor
    \/ EnchantMajorLevel

Next ==
    \/ GoodieCall
    \/ GoodieRoll
    \/ GoodieTierReturn
    \/ \E t \in Tiers : DirectCall(t)
    \/ DirectReturn
    \/ SelectorStep

Spec == Init /\ [][Next]_vars

SelNext ==
    \/ \E t \in Tiers : DirectCall(t)
    \/ DirectReturn
    \/ SelectorStep

SelSpec == SelInit /\ [][SelNext]_vars

\* the selector keeps running, and the generator does not return the
\* excluded index for ever
FairSelSpec ==
    /\ SelSpec
    /\ WF_vars(SelNext)
    /\ WF_vars(SelectorLoop /\ pc' # "loop")


(* ------------------------- notions used by the claims ------------------- *)

CommonNames ==
    {CommonTable(i) : i \in 0 .. 5} \cup {CommonWeapon(w).name : w \in 0 .. 2}
RareNames ==
    {RareTable(i) : i \in (0 .. 5) \cup {7, 8}} \cup {RareWeapon(w).name : w \in 0 .. 2}

\* the roll of the query, recomputed from the first sample of the seed
Roll == 10 * stream[1] + 10 * RawLevels - (IF level = 9 THEN 5 ELSE 1) * RawLevels
Lo == min_luck.tenths * RawLevels
Hi == max_luck.tenths * RawLevels
Numeric == ~min_luck.nan /\ ~max_luck.nan
Ordered == Numeric /\ min_luck.tenths < max_luck.tenths

\* the branch Goodie::generate has taken, by the Goodie it builds
Taken ==
    CASE gpc = "only_rare" -> "RareChest"
      [] gpc = "only_common" -> "CommonChest"
      [] gpc \in {"both_common", "both_rare"} -> "ChanceChest"
      [] gpc = "done" -> goodie.tag
      [] OTHER -> "None"

Returned == gpc = "done"

(* ------------------------------- C1 ------------------------------------- *)

\* C1: for min_luck < max_luck, Goodie::generate takes the rare branch iff
\* roll < min_luck, the common branch iff roll >= max_luck and the chance
\* branch iff min_luck <= roll < max_luck, where roll is next_f64 - (0.5 if
\* level == 9 else 0.1) + 1.0; a ChanceChest carries that roll as minluck.
C1_BranchTotality ==
    (Taken # "None" /\ Ordered) =>
        /\ Taken \in {"RareChest", "CommonChest", "ChanceChest"}
        /\ Taken = "RareChest" <=> Roll < Lo
        /\ Taken = "CommonChest" <=> Roll >= Hi
        /\ Taken = "ChanceChest" <=> (Lo <= Roll /\ Roll < Hi)
        /\ goodie.tag = "ChanceChest" => goodie.minluck = Roll

C1_Witness ==
    /\ Returned /\ Ordered /\ level = SpecialLevel
    /\ goodie.tag = "ChanceChest" /\ goodie.minluck = Roll /\ Roll > Lo

(* ------------------------------- C2 ------------------------------------- *)

\* C2 as stated: every ChanceChest has min_luck < threshold < max_luck, and a
\* roll outside that open band, a roll equal to min_luck included, gives a
\* CommonChest or a RareChest (taken over numeric bounds).
C2_Original ==
    (Returned /\ Numeric) =>
        /\ goodie.tag = "ChanceChest" => (Lo < goodie.minluck /\ goodie.minluck < Hi)
        /\ ~(Lo < Roll /\ Roll < Hi) => goodie.tag \in {"CommonChest", "RareChest"}

\* C2 as amended: every ChanceChest built for numeric bounds has
\* min_luck <= threshold < max_luck (a roll equal to min_luck gives a
\* ChanceChest); a roll with roll < min_luck or roll >= max_luck gives a
\* CommonChest or a RareChest.
C2_HalfOpenBand ==
    Taken # "None" =>
        /\ (Taken = "ChanceChest" /\ Numeric) => (Lo <= Roll /\ Roll < Hi)
        /\ (goodie.tag = "ChanceChest" /\ Numeric) =>
               (Lo <= goodie.minluck /\ goodie.minluck < Hi)
        /\ (RollLt(Roll, min_luck) \/ RollGe(Roll, max_luck)) =>
               Taken \in {"CommonChest", "RareChest"}

C2_Witness ==
    /\ Returned /\ Numeric
    /\ goodie.tag = "ChanceChest" /\ goodie.minluck = Lo

(* ------------------------------- C3 ------------------------------------- *)

\* the Goodie is a CommonChest resolved by the common selector alone
OnlyCommon ==
    /\ Taken = "CommonChest" /\ calls = << "common" >>
    /\ Returned => (goodie.common.name \in CommonNames /\ goodie.rare = NoItem)

\* the Goodie is a RareChest resolved by the rare selector alone
OnlyRare ==
    /\ Taken = "RareChest" /\ calls = << "rare" >>
    /\ Returned => (goodie.rare.name \in RareNames /\ goodie.common = NoItem)

\* C3 as stated: for every luck pair, roll >= max_luck gives a CommonChest
\* from the common selector only and roll < min_luck gives a RareChest from
\* the rare selector only.
C3_Original ==
    Taken # "None" =>
        /\ RollGe(Roll, max_luck) => OnlyCommon
        /\ RollLt(Roll, min_luck) => OnlyRare

\* C3 as amended: for every luck pair, roll < min_luck gives a RareChest from
\* the rare selector only (the rare test comes first, so also when
\* roll >= max_luck); roll >= max_luck without roll < min_luck gives a
\* CommonChest from the common selector only.
C3_RareTestFirst ==
    Taken # "None" =>
        /\ RollLt(Roll, min_luck) => OnlyRare
        /\ (RollGe(Roll, max_luck) /\ ~RollLt(Roll, min_luck)) => OnlyCommon

C3_Witness ==
    /\ Returned /\ Numeric /\ min_luck.tenths > max_luck.tenths
    /\ RollGe(Roll, max_luck) /\ ~RollLt(Roll, min_luck)
    /\ goodie.tag = "CommonChest"

(* ------------------------------- C8 ------------------------------------- *)

Scenario ==
    ~settings /\ level = 1 /\ min_luck = Luck(0) /\ max_luck = Luck(10)

\* C8 as stated: toggle false, level 1, min_luck 0.0, max_luck 1.0 give a
\* CommonChest or a RareChest for every seed.
C8_Original ==
    (Scenario /\ Returned) => goodie.tag \in {"CommonChest", "RareChest"}

\* C8 as amended: toggle false, level 1, min_luck 0.0, max_luck 1.0 give a
\* CommonChest when the first next_f64 of the seed is >= 0.1 and a ChanceChest
\* with threshold next_f64 + 0.9 when it is < 0.1; never a RareChest and
\* never DragonTooth.
C8_CommonOrChance ==
    (Scenario /\ Taken # "None") =>
        /\ Taken \in {"CommonChest", "ChanceChest"}
        /\ Taken = "ChanceChest" <=> 10 * stream[1] < RawLevels
        /\ goodie.tag = "ChanceChest" => goodie.minluck = 10 * stream[1] + 9 * RawLevels

C8_Witness ==
    Scenario /\ Returned /\ goodie.tag = "ChanceChest"

(* ------------------------------- C4 ------------------------------------- *)

Coconuts == {"GoldenCoconut", "GoldenCoconuts"}

C7_TiersReseeded ==
    /\ (caller = "goodie" /\ pc \notin {"idle", "new"}) => rng = Len(log)
    /\ (goodie.tag \in {"CommonChest", "ChanceChest"} /\ direct["common"] # NoItem)
           => goodie.common = direct["common"]
    /\ (goodie.tag \in {"RareChest", "ChanceChest"} /\ direct["rare"] # NoItem)
           => goodie.rare = direct["rare"]

C7_Witness ==
    /\ goodie.tag = "ChanceChest"
    /\ direct["common"] # NoItem /\ direct["rare"] # NoItem
    /\ goodie.common = direct["common"] /\ goodie.rare = direct["rare"]
    /\ Len(goodie.common.enchs) + Len(goodie.rare.enchs) > 0


(* ------------------------------- C5 ------------------------------------- *)

Conditional == {"Defense", "Weight", "SlimeGatherer"}
Majors == {"Attack", "CritChance", "Speed", "SlimeSlayer", "CritPower"}

EnchShape(es) ==
    /\ Len(es) <= 2
    /\ Cardinality({k \in 1 .. Len(es) : es[k].e \in Conditional}) <= 1
    /\ Len(es) = 2 => (es[1].e \in Conditional /\ es[2].e \in Majors)

InDisplayRange(en, ws) ==
    CASE en.e = "Defense" -> en.lvl \in 1 .. 2
      [] en.e = "Weight" -> en.lvl \in (0 - 5) .. (0 - 1)
      [] en.e = "CritChance" -> en.lvl \in 1 .. 3
      [] en.e = "CritPower" -> en.lvl \in {25, 50, 75}
      [] en.e = "Speed" -> en.lvl >= 1 /\ en.lvl <= (IF 4 - ws > 1 THEN 4 - ws ELSE 1)
      [] OTHER -> TRUE

\* C6: for the weapons of the two tables (levels 11 .. 14, speeds 4, -8, 3,
\* 0) every entry enchant_item produces has its magnitude in its display
\* range: Defense in [1,2], Weight in [-5,-1], CritChance in [1,3], CritPower
\* in {25,50,75}, Speed in [1, max(1, 4 - nominal speed)].
C6_MagnitudeRanges ==
    /\ weapon # NoWeapon =>
           (weapon.lvl \in 11 .. 14 /\ weapon.speed \in {4, 0 - 8, 3, 0})
    /\ \A k \in 1 .. Len(enchs) : InDisplayRange(enchs[k], weapon.speed)
    /\ \A k \in 1 .. Len(item.enchs) : InDisplayRange(item.enchs[k], weapon.speed)

C6_Witness ==
    /\ pc = "ret" /\ Len(item.enchs) = 2
    /\ item.enchs[1].e = "Weight"
    /\ item.enchs[2] = Ench("CritPower", 75)

(* ------------------------------- C9 ------------------------------------- *)

IndexDraws == {k \in 1 .. Len(log) : log[k].use = "index"}
EnchantUses == {"gate", "bonus", "bonus_lvl", "major", "major_lvl"}
PastLoop == Len(log) > 0 /\ pc \notin {"new", "discard", "loop"}

\* C9: the first value of the selector's generator is discarded; the index
\* draws follow it, one value each; with the toggle false every index draw
\* before the accepted one is the excluded index and the accepted one is not,
\* with the toggle true the first index draw is accepted; for index 6 the
\* weapon draw is the value right after the accepted index draw and the
\* draws of enchant_item follow it on the same generator.
C9_DrawAlignment ==
    LET m == Cardinality(IndexDraws) IN
    /\ rng = Len(log)
    /\ Len(log) >= 1 => log[1].use = "discard"
    /\ IndexDraws = 2 .. (m + 1)
    /\ pc = "loop" =>
           /\ m = rejected
           /\ \A k \in IndexDraws : log[k].val = Excluded(tier)
           /\ m > 0 => ~settings
    /\ PastLoop =>
           /\ m = rejected + 1
           /\ log[m + 1].val = ind
           /\ \A k \in 2 .. m : log[k].val = Excluded(tier)
           /\ ~settings => ind # Excluded(tier)
           /\ settings => m = 1
           /\ ind # WeaponSlot => Len(log) = m + 1
           /\ (ind = WeaponSlot /\ pc # "match") =>
                  /\ Len(log) >= m + 2
                  /\ log[m + 2].use = "weapon"
                  /\ weapon = WeaponOf(tier, log[m + 2].val)
                  /\ \A k \in (m + 3) .. Len(log) : log[k].use \in EnchantUses

C9_Witness ==
    /\ ~settings /\ pc = "ret" /\ rejected = 2 /\ ind = WeaponSlot
    /\ Len(item.enchs) = 2

(* ------------------------------- C10 ------------------------------------ *)

====
